---------------------------- MODULE Spec2Model ----------------------------
(***************************************************************************)
(* A model of tabix/tabixffi.py, the cffi binding of the tabix library.    *)
(*                                                                         *)
(* The binding is the class Tabix: the constructor (which may build an     *)
(* index), the classmethod build, the generator __call__ (= query), close  *)
(* and __del__.  Of the C library only the declarations of ffi.cdef are    *)
(* at hand; the operators named ti_* model it from those signatures and    *)
(* from the specification of the engine.                                   *)
(*                                                                         *)
(* Three specifications share the variables:                               *)
(*   Spec      one Tabix object, open, and one generator obtained from it  *)
(*   SpecPair  one Tabix object, open, and two generators pulled in any    *)
(*             interleaving                                                *)
(*   SpecLife  construction, build, close and drop of Tabix objects        *)
(***************************************************************************)
EXTENDS Integers, Sequences, FiniteSets, TLC

\* Largest coordinate of a record or of a query.
MaxCoord == 2
\* Largest number of records of the data file.
MaxRecs == 2

VARIABLES
    file,     \* the records of the data file, in file order
    fpos,     \* read position of the stream owned by the native handle
    gen,      \* the generators obtained from __call__, by name
    crashed,  \* the process was aborted by the native library
    fn,       \* the path of the data file
    tbi,      \* the companion index file fn.tbi: None, or the index's metadata
    obj,      \* the Tabix objects the caller holds, by name
    handles   \* the native handles ti_open returned, in order

qvars == <<file, fpos, gen, crashed>>
lvars == <<fn, tbi, obj, handles>>
vars == <<file, fpos, gen, crashed, fn, tbi, obj, handles>>

----------------------------------------------------------------------------
(* Values *)

\* Python's None / C's NULL, and a present value.
None == <<>>
Some(x) == <<x>>

\* Sequence names that occur in data files, and one that never does.
SeqNames == {"chr1", "chr2"}
Names == SeqNames \cup {"chr3"}

\* A record of the data file: its sequence and its 0-based half-open
\* interval [beg, end).
Records == {r \in [seq : SeqNames, beg : 0..MaxCoord, end : 0..MaxCoord] : r.beg < r.end}

Max(a, b) == IF a >= b THEN a ELSE b
Min(a, b) == IF a <= b THEN a ELSE b

\* All sequences over S of length at most n.
SeqsUpTo(S, n) == UNION {[1..k -> S] : k \in 0..n}

----------------------------------------------------------------------------
(* The native library: the index *)

\* The index's sequence dictionary: the names of f in order of first
\* appearance.
RECURSIVE SeqDict(_)
SeqDict(f) ==
    IF f = <<>> THEN <<>>
    ELSE LET d == SeqDict(SubSeq(f, 1, Len(f) - 1))
             n == f[Len(f)].seq
         IN IF \E k \in 1..Len(d) : d[k] = n THEN d ELSE Append(d, n)

\* ti_get_tid: the 0-based id of a name in the dictionary, -1 if absent.
ti_get_tid(f, name) ==
    LET d == SeqDict(f)
    IN IF \E k \in 1..Len(d) : d[k] = name
       THEN (CHOOSE k \in 1..Len(d) : d[k] = name) - 1
       ELSE -1

\* The records of a data file are grouped by sequence and, within a
\* sequence, sorted by start.
IsSorted(f) ==
    \A i, j \in 1..Len(f) :
        (i < j /\ f[i].seq = f[j].seq) =>
            /\ f[i].beg <= f[j].beg
            /\ \A k \in i..j : f[k].seq = f[i].seq

\* The chunk of a sequence: the virtual offsets <<u, v>> of its first record
\* and of the end of its last record.  A virtual offset is the position of a
\* record in the file; all coordinates of the model lie in one bin of the
\* finest level and one window of the linear index, so a sequence has one
\* chunk.
ChunkOf(f, tid) ==
    LET name == SeqDict(f)[tid + 1]
        ps == {p \in 1..Len(f) : f[p].seq = name}
    IN <<CHOOSE p \in ps : \A q \in ps : p <= q,
         (CHOOSE p \in ps : \A q \in ps : p >= q) + 1>>

\* The end of a whole-sequence range.
Sentinel == MaxCoord + 1

----------------------------------------------------------------------------
(* The native library: queries *)

\* A region expression SEQNAME[:START[-END]]; s, e are None or Some(n).
RegionExprs ==
    {[name |-> n, s |-> None, e |-> None] : n \in Names}
    \cup {[name |-> n, s |-> Some(a), e |-> None] : n \in Names, a \in 1..MaxCoord}
    \cup {[name |-> n, s |-> Some(a), e |-> Some(b)] : n \in Names, a \in 1..MaxCoord, b \in 1..MaxCoord}

\* A region expression that is a bare sequence name.
PlainName(n) == [name |-> n, s |-> None, e |-> None]

\* The region parser: 1-based inclusive START/END to 0-based half-open.
ti_parse_region(reg) ==
    LET b == IF reg.s = None THEN 0 ELSE reg.s[1] - 1
        e == IF reg.e = None THEN Sentinel ELSE reg.e[1]
    IN [ok |-> (reg.e = None \/ reg.s = None \/ reg.e[1] >= reg.s[1]),
        name |-> reg.name, beg |-> b, end |-> e]

\* The iterator of a failed query.
NullIter == [null |-> TRUE, tid |-> -1, beg |-> 0, end |-> 0, u |-> 0, v |-> 0, phase |-> "Done"]

ti_iter_query(f, tid, b, e) ==
    LET c == ChunkOf(f, tid)
    IN [null |-> FALSE, tid |-> tid, beg |-> b, end |-> e,
        u |-> c[1], v |-> c[2], phase |-> "Init"]

\* ti_query(t, name, beg, end); name is the string the caller passed, which
\* names a sequence only if it is a bare name of the dictionary.
ti_query(f, reg, b, e) ==
    LET tid == IF reg = PlainName(reg.name) THEN ti_get_tid(f, reg.name) ELSE -1
    IN IF tid < 0 THEN NullIter ELSE ti_iter_query(f, tid, b, e)

\* ti_querys(t, reg).
ti_querys(f, reg) ==
    LET p == ti_parse_region(reg)
        tid == ti_get_tid(f, p.name)
    IN IF ~p.ok \/ tid < 0 THEN NullIter ELSE ti_iter_query(f, tid, p.beg, p.end)

\* A record truly overlaps [b, e).
Overlaps(r, b, e) == Max(r.beg, b) < Min(r.end, e)

\* Scanning forward from stream position pos to the next overlapping record
\* of the iterator's chunk: the record (None at the end of the chunk) and the
\* stream position after it.
RECURSIVE Scan(_, _, _)
Scan(f, pos, it) ==
    IF pos >= it.v \/ pos > Len(f) THEN [rec |-> None, pos |-> pos]
    ELSE IF Overlaps(f[pos], it.beg, it.end) THEN [rec |-> Some(f[pos]), pos |-> pos + 1]
    ELSE Scan(f, pos + 1, it)

\* What a read through a NULL iterator can do.
NullReadOutcomes == {"crash", "null", "garbage"}
\* The bytes such a read may return.
Garbage == [seq |-> "?", beg |-> 0, end |-> 0]

\* ti_read(t, iter, len) on the stream of t at position pos.  ok: the blocks
\* this read decompresses are intact.  ub: the outcome when iter is NULL.
\* Returns the line (None for NULL), the new stream position, the iterator
\* and whether the process was aborted.
ti_read(f, pos, it, ok, ub) ==
    IF it.null THEN
        [rec |-> IF ub = "garbage" THEN Some(Garbage) ELSE None,
         pos |-> pos, it |-> it, crash |-> (ub = "crash")]
    ELSE IF it.phase \in {"Done", "Failed"} THEN
        [rec |-> None, pos |-> pos, it |-> it, crash |-> FALSE]
    ELSE
        LET start == IF it.phase = "Init" THEN it.u ELSE pos   \* Seeking
        IN IF start >= it.v THEN
               [rec |-> None, pos |-> start, it |-> [it EXCEPT !.phase = "Done"], crash |-> FALSE]
           ELSE IF ~ok THEN
               [rec |-> None, pos |-> start, it |-> [it EXCEPT !.phase = "Failed"], crash |-> FALSE]
           ELSE
               LET s == Scan(f, start, it)
               IN [rec |-> s.rec, pos |-> s.pos,
                   it |-> [it EXCEPT !.phase = IF s.rec = None THEN "Done" ELSE "Scanning"],
                   crash |-> FALSE]

----------------------------------------------------------------------------
(* Tabix.__call__ (= query): a generator *)

\* The arguments of __call__(region, start=None, end=None).
RegionArgs == {[region |-> r, start |-> None, end |-> None] : r \in RegionExprs}
TripleArgs == {[region |-> PlainName(n), start |-> Some(a), end |-> Some(b)] :
                  n \in Names, a \in 0..MaxCoord, b \in 0..MaxCoord}
\* start omitted but end given (the assert of line 125 fails), and start
\* given but end omitted (None is no int for ti_query: TypeError).
OddArgs == {[region |-> PlainName(n), start |-> None, end |-> Some(b)] :
               n \in Names, b \in 0..MaxCoord}
           \cup {[region |-> PlainName(n), start |-> Some(a), end |-> None] :
               n \in Names, a \in 0..MaxCoord}
QueryArgs == RegionArgs \cup TripleArgs \cup OddArgs

\* No generator yet.
NoGen == [st |-> "none", args |-> None, iter |-> None, yielded |-> <<>>,
          destroyed |-> 0, nreads |-> 0, nullRead |-> FALSE, outcome |-> ""]

\* The exception raised by lines 124-128 before any iterator exists.
ArgError(a) ==
    IF a.start = None /\ a.end # None THEN "AssertionError"
    ELSE IF a.start # None /\ a.end = None THEN "TypeError"
    ELSE ""

\* Lines 124-128: the iterator of the query.
OpenIterStartOneBased(f, a) ==
    IF a.start = None THEN ti_querys(f, a.region)
    ELSE ti_query(f, a.region, a.start[1] - 1, a.end[1])
OpenIter(f, a) ==
    IF a.start = None THEN ti_querys(f, a.region)
    ELSE ti_query(f, a.region, a.start[1], a.end[1])

\* Lines 139-140, the finally clause: ti_iter_destroy(t_iter).
DestroyInFinally(g) == [g EXCEPT !.destroyed = @ + 1]

\* GeneratorExit raised at the yield of line 137: the try statement of lines
\* 134-140 is left through its finally clause.
ExitAtYieldNoFinally(g) == [g EXCEPT !.st = "finished", !.outcome = "closed"]
ExitAtYield(g) == [DestroyInFinally(g) EXCEPT !.st = "finished", !.outcome = "closed"]

\* The generator after ti_read returned r (lines 135-140): a line is
\* yielded, NULL ends the loop and runs the finally clause.
AfterRead(g, it, r) ==
    LET g1 == [g EXCEPT !.iter = Some(r.it), !.nreads = @ + 1,
                        !.nullRead = @ \/ it.null]
    IN IF r.crash THEN g1
       ELSE IF r.rec # None
       THEN [g1 EXCEPT !.st = "suspended", !.yielded = Append(@, r.rec[1])]
       ELSE [DestroyInFinally(g1) EXCEPT !.st = "finished", !.outcome = "StopIteration"]

\* t(region, start, end): calling a generator function runs none of its
\* body.
Call(i, a) ==
    /\ ~crashed
    /\ gen[i].st = "none"
    /\ gen' = [gen EXCEPT ![i] = [NoGen EXCEPT !.st = "created", !.args = Some(a)]]
    /\ UNCHANGED <<file, fpos, crashed>>
    /\ UNCHANGED lvars

\* next(g): runs the body to the next yield or to its end.
Pull(i, ok, ub) ==
    /\ ~crashed
    /\ gen[i].st \in {"created", "suspended", "finished"}
    /\ LET g == gen[i]
           a == g.args[1]
       IN IF g.st = "finished" THEN UNCHANGED <<gen, fpos, crashed>>   \* StopIteration
          ELSE IF g.st = "created" /\ ArgError(a) # ""
          THEN /\ gen' = [gen EXCEPT ![i] = [g EXCEPT !.st = "finished", !.outcome = ArgError(a)]]
               /\ UNCHANGED <<fpos, crashed>>
          ELSE LET it == IF g.st = "created" THEN OpenIter(file, a) ELSE g.iter[1]
                   r == ti_read(file, fpos, it, ok, ub)
               IN /\ ub = "garbage" => Len(g.yielded) < MaxRecs
                  /\ gen' = [gen EXCEPT ![i] = AfterRead(g, it, r)]
                  /\ fpos' = r.pos
                  /\ crashed' = r.crash
    /\ UNCHANGED file
    /\ UNCHANGED lvars

\* g.close(), or the generator is dropped: GeneratorExit is raised at the
\* yield the generator is suspended at; a generator that never started just
\* ends.
CloseGen(i) ==
    /\ ~crashed
    /\ gen[i].st \in {"created", "suspended", "finished"}
    /\ gen' = [gen EXCEPT ![i] =
                 IF @.st = "suspended" THEN ExitAtYield(@)
                 ELSE IF @.st = "created"
                 THEN [@ EXCEPT !.st = "finished", !.outcome = "closed"]
                 ELSE @]
    /\ UNCHANGED <<file, fpos, crashed>>
    /\ UNCHANGED lvars

----------------------------------------------------------------------------
(* Construction, build, close and drop *)

\* Largest number of ti_close calls on one handle.
MaxCloses == 2
\* Depth at which nested constructor calls are given up (Python's recursion
\* limit).
MaxDepth == 3

\* A path is the sequence of the dot-separated parts of its name.
Paths == {<<"x", "bed", "gz">>, <<"x", "gff", "gz">>, <<"x", "gtf", "gz">>,
          <<"x", "vcf", "gz">>, <<"x", "txt", "gz">>, <<"x", "bed">>}

\* fn.endswith("." + suffix): the parts of the suffix are the last parts of
\* the path, after at least one more part.
EndsWith(p, suf) ==
    Len(p) > Len(suf) /\ SubSeq(p, Len(p) - Len(suf) + 1, Len(p)) = suf

\* ti_conf_t: preset, sc, bc, ec, meta_char, line_skip.
Conf(sc, bc, ec) == [preset |-> 0, sc |-> sc, bc |-> bc, ec |-> ec,
                     meta_char |-> "#", line_skip |-> 0]
BedConf == Conf(1, 2, 3)
GffConf == Conf(1, 4, 5)
VcfConf == Conf(1, 2, 0)

\* The records a data file to be indexed may hold: an end beyond MaxCoord is
\* beyond the largest coordinate the binning scheme represents.
RawRecords == {r \in [seq : {"chr1"}, beg : 0..MaxCoord, end : 1..(MaxCoord + 1)] : r.beg < r.end}

\* ti_index_build, the pass over the records from record k on: the first
\* violation found.
RECURSIVE BuildScan(_, _)
BuildScan(f, k) ==
    IF k > Len(f) THEN "ok"
    ELSE IF k > 1 /\ ~IsSorted(SubSeq(f, 1, k)) THEN "UnsortedInput"
    ELSE IF f[k].end > MaxCoord THEN "CoordinateOverflow"
    ELSE BuildScan(f, k + 1)
BuildOutcome(f) == BuildScan(f, 1)

\* ti_index_build(fn, conf): 0 and the index file written, or -1 and nothing
\* written.
ti_index_build(f, conf, w) ==
    IF BuildOutcome(f) = "ok"
    THEN [rc |-> 0, w |-> [w EXCEPT !.tbi = Some(conf)]]
    ELSE [rc |-> -1, w |-> w]

\* ti_open(fn, NULL): a new native handle, owned by the object built.
ti_open(w, owner) ==
    [h |-> Len(w.handles) + 1,
     w |-> [w EXCEPT !.handles = Append(@, [owner |-> owner, closes |-> 0])]]

\* ti_close(t)
ti_close(w, h) == [w EXCEPT !.handles[h].closes = @ + 1]

\* cffi converts a pointer argument only if it has the parameter's type (or
\* the parameter is void *); otherwise the call raises TypeError.
CffiAccepts(argType, paramType) == argType = paramType \/ paramType = "void *"

\* Tabix.close (lines 151-152)
TabixClose(w, h) == ti_close(w, h)

\* Tabix.__del__ (lines 144-149): ti_index_destroy, declared to take a
\* ti_index_t *, is called with self._tabix, a tabix_t *; whatever is raised
\* in the try block is swallowed, and close() comes after the raising call.
TabixDel(w, h) ==
    IF CffiAccepts("tabix_t *", "ti_index_t *") THEN TabixClose(w, h) ELSE w

\* The tests of lines 86-90.
IsBed(p) == EndsWith(p, <<"bed", "gz">>)
IsGffOnly(p) == EndsWith(p, <<"gff", "gz">>)
IsGff(p) == EndsWith(p, <<"gff", "gz">>) \/ EndsWith(p, <<"gtf", "gz">>)
IsVcf(p) == EndsWith(p, <<"vcf", "gz">>)

RECURSIVE TabixInit(_, _, _, _)
RECURSIVE TabixBuild(_, _, _, _, _)

\* Tabix.build(fname, ...) (lines 109-121) at call depth d; owner is who
\* keeps the object it returns.
TabixBuildNoAssert(p, w, conf, owner, d) ==
    TabixInit(p, ti_index_build(file, conf, w).w, owner, d + 1)
TabixBuild(p, w, conf, owner, d) ==
    LET b == ti_index_build(file, conf, w)
    IN IF b.rc = -1 THEN [err |-> "AssertionError", h |-> 0, conf |-> None, w |-> b.w]
       ELSE TabixInit(p, b.w, owner, d + 1)

\* Tabix.__init__(fn) (lines 82-97) at call depth d.  The object build
\* returns is not kept: it is dropped as soon as build returns.
TabixInit(p, w, owner, d) ==
    IF d > MaxDepth THEN [err |-> "RecursionError", h |-> 0, conf |-> None, w |-> w]
    ELSE IF w.tbi # None THEN
        LET o == ti_open(w, owner)
        IN [err |-> "", h |-> o.h, conf |-> o.w.tbi, w |-> o.w]
    ELSE IF IsBed(p) \/ IsGff(p) \/ IsVcf(p) THEN
        LET conf == IF IsBed(p) THEN BedConf ELSE IF IsGff(p) THEN GffConf ELSE VcfConf
            b == TabixBuild(p, w, conf, "temp", d + 1)
        IN IF b.err # "" THEN b
           ELSE LET o == ti_open(TabixDel(b.w, b.h), owner)
                IN [err |-> "", h |-> o.h, conf |-> o.w.tbi, w |-> o.w]
    ELSE [err |-> "Exception", h |-> 0, conf |-> None, w |-> w]

NoObj == [st |-> "none", h |-> 0, conf |-> None, err |-> ""]
World == [tbi |-> tbi, handles |-> handles]
ObjOf(r) == [st |-> IF r.err = "" THEN "live" ELSE "failed", h |-> r.h,
             conf |-> r.conf, err |-> r.err]

\* o = Tabix(fn)
Construct(o) ==
    /\ obj[o].st = "none"
    /\ LET r == TabixInit(fn, World, o, 1)
       IN /\ obj' = [obj EXCEPT ![o] = ObjOf(r)]
          /\ tbi' = r.w.tbi
          /\ handles' = r.w.handles
    /\ UNCHANGED <<fn, qvars>>

\* o = Tabix.build(fn, seq_col, start_col, end_col)
BuildCall(o, conf) ==
    /\ obj[o].st = "none"
    /\ LET r == TabixBuild(fn, World, conf, o, 1)
       IN /\ obj' = [obj EXCEPT ![o] = ObjOf(r)]
          /\ tbi' = r.w.tbi
          /\ handles' = r.w.handles
    /\ UNCHANGED <<fn, qvars>>

\* o.close()
Close(o) ==
    /\ obj[o].st = "live"
    /\ handles[obj[o].h].closes < MaxCloses
    /\ handles' = TabixClose(World, obj[o].h).handles
    /\ UNCHANGED <<fn, tbi, obj, qvars>>

\* del o: the last reference goes, __del__ runs.
Drop(o) ==
    /\ obj[o].st = "live"
    /\ handles' = TabixDel(World, obj[o].h).handles
    /\ obj' = [obj EXCEPT ![o].st = "dropped"]
    /\ UNCHANGED <<fn, tbi, qvars>>

Objs == {"o1", "o2"}

InitLife ==
    /\ file \in SeqsUpTo(RawRecords, MaxRecs)
    /\ fpos = 1
    /\ gen = [i \in {"a", "b"} |-> NoGen]
    /\ crashed = FALSE
    /\ fn \in Paths
    /\ tbi = None
    /\ obj = [o \in Objs |-> NoObj]
    /\ handles = <<>>

NextLife ==
    \E o \in Objs :
        \/ Construct(o)
        \/ \E conf \in {BedConf, GffConf, VcfConf} : BuildCall(o, conf)
        \/ Close(o)
        \/ Drop(o)

SpecLife == InitLife /\ [][NextLife]_vars

----------------------------------------------------------------------------
(* Specifications of the query side *)

\* The data files an index exists for.
IndexedFiles == {f \in SeqsUpTo(Records, MaxRecs) : IsSorted(f)}

\* A Tabix object o1 was built on an indexed file, and is open.
Init ==
    /\ file \in IndexedFiles
    /\ fpos = 1
    /\ gen = [i \in {"a", "b"} |-> NoGen]
    /\ crashed = FALSE
    /\ fn = <<"x", "gtf", "gz">>
    /\ tbi = Some(GffConf)
    /\ obj = [o \in Objs |-> IF o = "o1" THEN [st |-> "live", h |-> 1, conf |-> Some(GffConf), err |-> ""] ELSE NoObj]
    /\ handles = <<[owner |-> "o1", closes |-> 0]>>

Next ==
    \/ \E a \in QueryArgs : Call("a", a)
    \/ \E ok \in BOOLEAN, ub \in NullReadOutcomes : Pull("a", ok, ub)
    \/ CloseGen("a")

Spec == Init /\ [][Next]_vars

NextPair ==
    \E i \in {"a", "b"} :
        \/ \E a \in TripleArgs : ti_get_tid(file, a.region.name) >= 0 /\ Call(i, a)
        \/ Pull(i, TRUE, "null")
        \/ CloseGen(i)

SpecPair == Init /\ [][NextPair]_vars

----------------------------------------------------------------------------
(* Properties of the query side *)

\* The brute-force linear scan: the records of sequence name whose interval
\* [beg, end) has a coordinate in common with [b, e).
Intersects(r, b, e) == (r.beg .. (r.end - 1)) \cap (b .. (e - 1)) # {}
Oracle(f, name, b, e) == SelectSeq(f, LAMBDA r : r.seq = name /\ Intersects(r, b, e))

IsPrefix(s, t) == Len(s) <= Len(t) /\ SubSeq(t, 1, Len(s)) = s

\* The generator was started: its body ran.
Started(g) == g.st = "suspended" \/ (g.st = "finished" /\ g.outcome # "closed") \/ g.nreads > 0
\* The generator was pulled until it ended by itself.
Drained(g) == g.st = "finished" /\ g.outcome = "StopIteration"
\* The arguments are a query (sequence, start, end).
IsTriple(a) == a.start # None /\ a.end # None
Known(name) == ti_get_tid(file, name) >= 0
ReadFailed(g) == g.iter # None /\ g.iter[1].phase = "Failed"

\* C1: a query (sequence, start, end) on a known sequence yields only records
\* of that sequence that intersect [start, end), in file order, and, once
\* drained without a read error, all of them: the result of the brute-force
\* scan.
C1_QueryYieldsExactlyOverlaps ==
    LET g == gen["a"]
        a == g.args[1]
        want == Oracle(file, a.region.name, a.start[1], a.end[1])
    IN (g.args # None /\ IsTriple(a) /\ Known(a.region.name)) =>
          /\ IsPrefix(g.yielded, want)
          /\ (Drained(g) /\ ~ReadFailed(g)) => g.yielded = want

\* C1's case: a drained query that yielded a record and left out a record
\* of the same sequence whose end is the query's start.
C1_Witness ==
    LET g == gen["a"]
        a == g.args[1]
    IN /\ g.args # None /\ IsTriple(a) /\ Known(a.region.name)
       /\ Drained(g) /\ ~ReadFailed(g)
       /\ Len(g.yielded) >= 1
       /\ \E p \in 1..Len(file) : file[p].seq = a.region.name /\ file[p].end = a.start[1]

\* C2: the iterator a generator obtained is destroyed exactly once when the
\* generator ends (exhausted, closed after any number of pulls, or stopped by
\* a read error), not before; and a generator that has ended yields nothing
\* more and reads nothing more from the handle.
C2_DestroyedState ==
    \A i \in DOMAIN gen :
        LET g == gen[i]
        IN /\ g.destroyed <= 1
           /\ (g.st = "finished" /\ g.iter # None) => g.destroyed = 1
           /\ (g.st # "finished" \/ g.iter = None) => g.destroyed = 0
C2_DoneStep ==
    \A i \in DOMAIN gen : gen[i].st = "finished" => gen'[i] = gen[i]
C2_IteratorDestroyedOnce == []C2_DestroyedState /\ [][C2_DoneStep]_vars

\* C2's case: a generator abandoned after a pull and closed, whose iterator
\* was destroyed.
C2_Witness ==
    /\ gen["a"].st = "finished" /\ gen["a"].outcome = "closed"
    /\ Len(gen["a"].yielded) >= 1 /\ gen["a"].destroyed = 1

\* The sequence a query names, and whether its range is valid.
QueryName(a) == a.region.name
ValidQuery(a) == ArgError(a) = "" /\ (IsTriple(a) \/ ti_parse_region(a.region).ok)

\* C3: a query on a sequence that is not in the dictionary fails with
\* UnknownSequence: it yields nothing, its end differs from the end of an
\* empty result, and nothing is read through a NULL iterator.
C3_UnknownSequenceFails ==
    \A i \in DOMAIN gen :
        LET g == gen[i]
            a == g.args[1]
        IN (g.args # None /\ ValidQuery(a) /\ ~Known(QueryName(a)) /\ Started(g)) =>
              /\ g.outcome = "UnknownSequence"
              /\ g.yielded = <<>>
              /\ ~g.nullRead

\* C5: the region parser.  A region SEQNAME:START-END is the query
\* (SEQNAME, START-1, END); SEQNAME alone is the whole sequence, whose first
\* result is the sequence's first record; END < START fails with
\* InvalidRange.
C5_ParsedRangeResults ==
    LET g == gen["a"]
        a == g.args[1]
        r == a.region
        b == IF r.s = None THEN 0 ELSE r.s[1] - 1
        e == IF r.e = None THEN Sentinel ELSE r.e[1]
        want == Oracle(file, r.name, b, e)
    IN (g.args # None /\ a.start = None /\ a.end = None /\ Known(r.name)
          /\ (r.e = None \/ r.e[1] >= r.s[1])) =>
          /\ IsPrefix(g.yielded, want)
          /\ (Drained(g) /\ ~ReadFailed(g)) => g.yielded = want
          /\ (r = PlainName(r.name) /\ g.yielded # <<>>) =>
                g.yielded[1] = file[CHOOSE p \in 1..Len(file) :
                                       /\ file[p].seq = r.name
                                       /\ \A q \in 1..(p - 1) : file[q].seq # r.name]
C5_InvalidRangeFails ==
    LET g == gen["a"]
        a == g.args[1]
        r == a.region
    IN (g.args # None /\ a.start = None /\ a.end = None /\ Started(g)
          /\ r.e # None /\ r.e[1] < r.s[1]) =>
          g.outcome = "InvalidRange"
C5_RegionParser == C5_ParsedRangeResults /\ C5_InvalidRangeFails

\* C7: a read that fails during iteration ends the generator with an error
\* the caller can tell from the end of the matches.
C7_ReadErrorReported ==
    \A i \in DOMAIN gen :
        (gen[i].st = "finished" /\ ReadFailed(gen[i])) =>
            gen[i].outcome \notin {"StopIteration", "closed", ""}

\* A generator drained alone, on a stream no other generator reads.
RECURSIVE DrainFrom(_, _, _, _)
DrainFrom(f, pos, it, acc) ==
    LET r == ti_read(f, pos, it, TRUE, "null")
    IN IF r.rec = None THEN acc ELSE DrainFrom(f, r.pos, r.it, Append(acc, r.rec[1]))
DrainedAlone(f, a) == DrainFrom(f, 1, OpenIter(f, a), <<>>)

\* C9: whatever the interleaving of the pulls of two generators of one
\* handle, each yields what it yields when drained alone.
C9_IndependentIterators ==
    \A i \in DOMAIN gen :
        LET g == gen[i]
            alone == DrainedAlone(file, g.args[1])
        IN (g.args # None /\ ArgError(g.args[1]) = "") =>
              /\ IsPrefix(g.yielded, alone)
              /\ Drained(g) => g.yielded = alone

----------------------------------------------------------------------------
(* Properties of construction, build, close and drop *)

\* The object that owns a handle has been dropped.
OwnerDropped(h) ==
    handles[h].owner = "temp" \/ obj[handles[h].owner].st = "dropped"

\* C4: close is idempotent: however often close is called, explicitly or by
\* the drop of the object, the native handle is released at most once.
C4_CloseIdempotent == \A h \in DOMAIN handles : handles[h].closes <= 1

\* C10: every native handle whose owning object has been dropped has been
\* released by ti_close.
C10_NoHandleLeftOpen ==
    \A h \in DOMAIN handles : OwnerDropped(h) => handles[h].closes >= 1

\* C6 as stated: constructing a Tabix object on a path with no index file
\* fails and writes no index file, whatever the path's extension.
C6_OpenNeverBuilds ==
    [][\A o \in Objs : (tbi = None /\ Construct(o)) =>
          (tbi' = None /\ obj'[o].st = "failed")]_vars

\* The paths the constructor builds an index for, with the columns it uses.
PresetOf(p) ==
    IF p = <<"x", "bed", "gz">> THEN Some(Conf(1, 2, 3))
    ELSE IF p \in {<<"x", "gff", "gz">>, <<"x", "gtf", "gz">>} THEN Some(Conf(1, 4, 5))
    ELSE IF p = <<"x", "vcf", "gz">> THEN Some(Conf(1, 2, 0))
    ELSE None

\* C6, amended: constructing a Tabix object on a path with no index file
\* fails with a plain Exception, writing no index file and opening no
\* handle, exactly when the path ends in none of .bed.gz, .gff.gz, .gtf.gz,
\* .vcf.gz; on a path with one of these endings the constructor itself
\* builds the index with the ending's preset columns: the index file is
\* written and the object is open if the build succeeds, and the
\* construction fails with the build's AssertionError if it does not.
C6_OpenBuildsByExtension ==
    [][\A o \in Objs : (tbi = None /\ Construct(o)) =>
          IF PresetOf(fn) = None
          THEN /\ tbi' = None /\ handles' = handles
               /\ obj'[o].st = "failed" /\ obj'[o].err = "Exception"
          ELSE IF BuildOutcome(file) = "ok"
          THEN tbi' = PresetOf(fn) /\ obj'[o].st = "live"
          ELSE /\ tbi' = None /\ handles' = handles
               /\ obj'[o].st = "failed" /\ obj'[o].err = "AssertionError"]_vars

\* C6's case: an open that failed for want of an index, nothing built.
C6_Witness ==
    /\ obj["o1"].st = "failed" /\ obj["o1"].err = "Exception" /\ tbi = None
    /\ obj["o2"].st = "none"

\* The data file has a record that starts before the record preceding it.
Unsorted(f) == \E k \in 2..Len(f) : f[k].seq = f[k - 1].seq /\ f[k].beg < f[k - 1].beg

\* C8 as stated: a build from unsorted input fails with UnsortedInput,
\* writes no index file and returns no object.
C8_UnsortedInputError ==
    [][\A o \in Objs, conf \in {BedConf, GffConf, VcfConf} :
          (Unsorted(file) /\ BuildCall(o, conf)) =>
              /\ obj'[o].st = "failed" /\ obj'[o].err = "UnsortedInput"
              /\ tbi' = None /\ handles' = handles]_vars

\* C8, amended: a build from unsorted input fails with AssertionError, the
\* error of every failed build (a coordinate overflow included), writes no
\* index file and returns no object.
C8_UnsortedBuildFails ==
    [][\A o \in Objs, conf \in {BedConf, GffConf, VcfConf} :
          (BuildCall(o, conf) /\ (Unsorted(file) \/ BuildOutcome(file) = "CoordinateOverflow")) =>
              /\ obj'[o].st = "failed" /\ obj'[o].err = "AssertionError"
              /\ tbi' = None /\ handles' = handles]_vars

\* C8's case: a build of an unsorted file has failed.
C8_Witness ==
    /\ Unsorted(file) /\ BuildOutcome(file) = "UnsortedInput"
    /\ obj["o1"].st = "failed" /\ obj["o1"].err = "AssertionError"
    /\ obj["o2"].st = "none" /\ \A k \in 1..Len(file) : file[k].end <= MaxCoord

============================================================================
